---- MODULE Spec2Model ----
(***************************************************************************)
(* A model of options-math (src/src/lib.rs): strike aggregation, forward   *)
(* price, single-expiry variance, grouping by expiry and the two-expiry    *)
(* index blend.                                                            *)
(*                                                                         *)
(* Cents (i64) are integers.  An f64 is the exact fraction n/d, with 1/0,   *)
(* -1/0 and 0/0 for +inf, -inf and NaN and the IEEE-754 rules for them;    *)
(* rounding, overflow and the sign of zero are not modelled (every zero    *)
(* divisor of the program is +0.0), and exp is taken to first order.       *)
(* Times are in seconds.  sort_unstable_by_key is the set of the orders it *)
(* may return: every permutation that is sorted by key.                    *)
(***************************************************************************)
EXTENDS Integers, Sequences, FiniteSets, TLC

VARIABLES
    pc,                 \* which operation has been applied
    options,            \* the flat slice given to group_options_by_expiry
    options_by_expiry,  \* its result: expires_at -> OptionsByExpiryDate
    self,               \* the OptionsByExpiryDate under test
    now,                \* the time of the computation, in seconds
    near_term,          \* the first argument of compute_vix
    next_term,          \* its second argument
    strikes,            \* result of get_strikes
    fp,                 \* result of forward_price
    atm,                \* the strike forward_price selected (<<>> if none)
    prev,               \* the forward_price run before a perturbation
    vr,                 \* the locals and the result of variance
    vix                 \* the operands and the result of compute_vix

vars == <<pc, options, options_by_expiry, self, now, near_term, next_term,
          strikes, fp, atm, prev, vr, vix>>

----------------------------------------------------------------------------
(* Bounds of the model *)

MaxStrike == 3
MaxBid == 2
MaxLen == 3

----------------------------------------------------------------------------
(* Data types *)

Call == "Call"
Put == "Put"
OptionKind == {Call, Put}

OptionContract(expires_at, strike, kind, bid, ask) ==
    [expires_at |-> expires_at, strike |-> strike, kind |-> kind,
     bid |-> bid, ask |-> ask]

\* i64 `/`: truncation toward zero (b > 0)
TruncDiv(a, b) ==
    IF a >= 0 THEN a \div b ELSE -((-a) \div b)

Abs(x) == IF x < 0 THEN -x ELSE x

ContractMark(o) == TruncDiv(o.ask + o.bid, 2)

OptionStrike(price, put, call, delta_k) ==
    [price |-> price, put |-> put, call |-> call, delta_k |-> delta_k]

CallPutDifference(s) == ContractMark(s.call) - ContractMark(s.put)

----------------------------------------------------------------------------
(* f64: n/d with d >= 0 in lowest terms; 1/0 is +inf, -1/0 is -inf, 0/0 is NaN *)

RECURSIVE Gcd(_, _)
Gcd(a, b) == IF b = 0 THEN a ELSE Gcd(b, a % b)

Sign(x) == IF x > 0 THEN 1 ELSE IF x < 0 THEN -1 ELSE 0

F(n, d) ==
    IF d = 0 THEN [n |-> Sign(n), d |-> 0]
    ELSE LET g == Gcd(Abs(n), Abs(d))
         IN  [n |-> Sign(d) * (n \div g), d |-> Abs(d) \div g]

FromInt(i) == F(i, 1)
FNaN == F(0, 0)
IsFinite(x) == x.d # 0
IsNaN(x) == x.d = 0 /\ x.n = 0

FMul(x, y) == F(x.n * y.n, x.d * y.d)

\* 1/x; a zero divisor is +0.0, and 1/(+0.0) is +inf
FRecip(x) == IF x.n < 0 THEN F(-x.d, -x.n) ELSE [n |-> x.d, d |-> x.n]

FDiv(x, y) == FMul(x, FRecip(y))

FAdd(x, y) ==
    IF IsFinite(x) /\ IsFinite(y) THEN F(x.n * y.d + y.n * x.d, x.d * y.d)
    ELSE IF IsFinite(y) THEN x
    ELSE IF IsFinite(x) THEN y
    ELSE IF x = y THEN x
    ELSE FNaN

FSub(x, y) == FAdd(x, [n |-> -y.n, d |-> y.d])

\* f64::exp, to first order: exp(0) = 1, and exp(x) > 1 iff x > 0
Exp(x) == FAdd(FromInt(1), x)

\* `as Cents` of a finite or NaN f64: truncation toward zero, NaN to 0
AsCents(x) ==
    CASE IsFinite(x) -> TruncDiv(x.n, x.d)
      [] IsNaN(x) -> 0

----------------------------------------------------------------------------
(* Library helpers *)

RECURSIVE Perms(_)
Perms(S) ==
    IF S = {} THEN {<<>>}
    ELSE UNION {{<<x>> \o p : p \in Perms(S \ {x})} : x \in S}

MinOf(S) == CHOOSE m \in S : \A x \in S : m <= x

RECURSIVE SortedSeq(_)
SortedSeq(S) ==
    IF S = {} THEN <<>> ELSE <<MinOf(S)>> \o SortedSeq(S \ {MinOf(S)})

\* the index orders a sort by keys may produce: ascending keys, equal keys in
\* any order
RECURSIVE SortedIndexOrders(_, _)
SortedIndexOrders(I, keys) ==
    IF I = {} THEN {<<>>}
    ELSE LET m == MinOf({keys[i] : i \in I})
             G == {i \in I : keys[i] = m}
         IN  {p \o r : p \in Perms(G), r \in SortedIndexOrders(I \ G, keys)}

\* a sort that orders by descending key
SortDescending(seq, keys) ==
    {[j \in 1..Len(seq) |-> seq[p[j]]] :
        p \in SortedIndexOrders(1..Len(seq), [i \in 1..Len(seq) |-> -keys[i]])}

\* slice::sort_unstable_by_key: every outcome it may produce
SortUnstableByKey(seq, keys) ==
    {[j \in 1..Len(seq) |-> seq[p[j]]] : p \in SortedIndexOrders(1..Len(seq), keys)}

StrikeKeys(seq) == [i \in 1..Len(seq) |-> seq[i].strike]
PriceKeys(seq) == [i \in 1..Len(seq) |-> seq[i].price]

\* Itertools::group_by: the maximal runs of consecutive equal keys
GroupBy(seq, keys) ==
    LET n == Len(seq)
        starts == SortedSeq({i \in 1..n : i = 1 \/ keys[i] # keys[i - 1]})
        stop(g) == IF g = Len(starts) THEN n ELSE starts[g + 1] - 1
    IN  [g \in 1..Len(starts) |->
            [key |-> keys[starts[g]], items |-> SubSeq(seq, starts[g], stop(g))]]

\* Iterator::find(|o| o.kind == kind): <<first match>> or <<>>
FindKind(seq, kind) ==
    LET hits == {i \in 1..Len(seq) : seq[i].kind = kind}
    IN  IF hits = {} THEN <<>> ELSE <<seq[MinOf(hits)]>>

RECURSIVE Flatten(_)
Flatten(ss) == IF Len(ss) = 0 THEN <<>> ELSE Head(ss) \o Flatten(Tail(ss))

----------------------------------------------------------------------------
(* OptionsByExpiryDate::get_strikes *)

\* a filter that keeps the zero bids
KeepAll(o) == TRUE

HasBid(o) == o.bid # 0

AllOptions(s) == SelectSeq(s.calls \o s.puts, HasBid)

\* the closure of flat_map: one OptionStrike when the group has both kinds
PairGroup(g) ==
    LET call == FindKind(g.items, Call)
        put == FindKind(g.items, Put)
    IN  IF call # <<>> /\ put # <<>>
        THEN <<OptionStrike(g.key, put[1], call[1], 0)>>
        ELSE <<>>

OptionsByStrike(sorted) ==
    LET groups == GroupBy(sorted, StrikeKeys(sorted))
    IN  Flatten([i \in 1..Len(groups) |-> PairGroup(groups[i])])

\* the whole distance between the neighbours, not half of it
FullWidth(prv, nxt) == nxt.price - prv.price

DeltaK(prv, nxt) == TruncDiv(nxt.price - prv.price, 2)

\* delta_ks after the windows(3) loop, looked up with unwrap_or(&0): the last
\* window whose middle has this price wins (HashMap::insert overwrites)
DeltaKs(obs, price) ==
    LET mids == {i \in 2..(Len(obs) - 1) : obs[i].price = price}
    IN  IF mids = {} THEN 0
        ELSE LET i == CHOOSE m \in mids : \A x \in mids : x <= m
             IN  DeltaK(obs[i - 1], obs[i + 1])

WithDeltaK(obs) ==
    [i \in 1..Len(obs) |-> [obs[i] EXCEPT !.delta_k = DeltaKs(obs, obs[i].price)]]

\* every result get_strikes may return
GetStrikes(s) ==
    LET all_options == AllOptions(s)
    IN  UNION {{WithDeltaK(sorted) : sorted \in SortUnstableByKey(obs, PriceKeys(obs))} :
               obs \in {OptionsByStrike(sorted) :
                           sorted \in SortUnstableByKey(all_options,
                                                        StrikeKeys(all_options))}}

----------------------------------------------------------------------------
(* OptionsByExpiryDate: time functions and forward_price *)

\* Duration::num_minutes of expires_at - now (times are in seconds), as f64
MinutesToExpiration(s, t) == FromInt(TruncDiv(s.expires_at - t, 60))

MinutesPerYear == 525600

TimeToExpiration(s, t) == FDiv(MinutesToExpiration(s, t), FromInt(MinutesPerYear))

Interest(s, t) == Exp(FMul(s.risk_free_rate, TimeToExpiration(s, t)))

\* sorting by the signed difference, without abs()
SignedCpdKeys(st) == [i \in 1..Len(st) |-> CallPutDifference(st[i])]

CpdKeys(st) == [i \in 1..Len(st) |-> Abs(CallPutDifference(st[i]))]

\* strikes.first() after the sort by |call_put_difference|: <<atm>> or <<>>
AtmChoices(st) ==
    {SubSeq(sorted, 1, IF Len(sorted) = 0 THEN 0 ELSE 1) :
        sorted \in SortUnstableByKey(st, CpdKeys(st))}

\* rounding the interest term down instead of toward zero
ForwardPriceFloor(a, interest) ==
    IF a = <<>> THEN 0
    ELSE LET x == FMul(interest, FromInt(CallPutDifference(a[1])))
         IN  a[1].price + (x.n \div x.d)

\* atm.map(...).unwrap_or(0)
ForwardPriceOf(a, interest) ==
    IF a = <<>> THEN 0
    ELSE a[1].price + AsCents(FMul(interest, FromInt(CallPutDifference(a[1]))))

----------------------------------------------------------------------------
(* OptionsByExpiryDate::variance *)

\* a partition that puts the strike at the forward price below it
AtOrBelow(s, f) == s.price <= f

\* the predicate of partition: |x| (*x).price < fp
Below(s, f) == s.price < f

NegPriceKeys(seq) == [i \in 1..Len(seq) |-> -seq[i].price]

\* selected_options: the puts of below, the calls of above, both legs of k
SelectedOptions(below, above, k) ==
    [i \in 1..Len(below) |-> <<below[i].put, below[i].delta_k>>]
    \o [i \in 1..Len(above) |-> <<above[i].call, above[i].delta_k>>]
    \o Flatten([i \in 1..Len(k) |->
                   <<<<k[i].call, k[i].delta_k>>, <<k[i].put, k[i].delta_k>>>>])

\* the closure of map in contributions
Contribution(leg, risk_free_interest) ==
    LET option == leg[1]
        delta_k == leg[2]
        strike_dollars == FDiv(FromInt(option.strike), FromInt(100))
    IN  FMul(FMul(FDiv(FDiv(FromInt(delta_k), FromInt(100)),
                       FMul(strike_dollars, strike_dollars)),
                  FDiv(FromInt(ContractMark(option)), FromInt(100))),
             risk_free_interest)

RECURSIVE FSum(_)
FSum(xs) == IF Len(xs) = 0 THEN FromInt(0) ELSE FAdd(Head(xs), FSum(Tail(xs)))

\* let a = fp as f64 / k_0 as f64 - 1.0
TermA(f, k_0) == FSub(FDiv(FromInt(f), FromInt(k_0)), FromInt(1))

\* the locals and the result of variance, given the strikes, the forward
\* price and the order the sort of below_and_k returned
VarianceOf(s, tm, st, f, below_and_k) ==
    LET t == TimeToExpiration(s, tm)
        risk_free_interest == Exp(FMul(s.risk_free_rate, t))
        above == SelectSeq(st, LAMBDA x : ~Below(x, f))
        k == SubSeq(below_and_k, 1, IF Len(below_and_k) = 0 THEN 0 ELSE 1)
        k_0 == IF k = <<>> THEN 0 ELSE k[1].price
        below == SubSeq(below_and_k, 2, Len(below_and_k))
        selected_options == SelectedOptions(below, above, k)
        contributions ==
            FSum([i \in 1..Len(selected_options) |->
                     Contribution(selected_options[i], risk_free_interest)])
        a == TermA(f, k_0)
    IN  [t |-> t, k |-> k, k_0 |-> k_0, selected_options |-> selected_options,
         contributions |-> contributions, a |-> a,
         variance |-> FDiv(FSub(FMul(FromInt(2), contributions), FMul(a, a)), t)]

\* every result variance may return, with the strikes and the forward price
\* it used: <<strikes, atm, fp, locals>>
Variance(s, tm) ==
    UNION {UNION {LET f == ForwardPriceOf(a, Interest(s, tm))
                      bk == SelectSeq(st, LAMBDA x : Below(x, f))
                  IN  {<<st, a, f, VarianceOf(s, tm, st, f, sorted)>> :
                          sorted \in SortUnstableByKey(bk, NegPriceKeys(bk))} :
                  a \in AtmChoices(st)} :
           st \in GetStrikes(s)}

----------------------------------------------------------------------------
(* compute_vix.  Its products overflow the integers of the model checker, so
   from here on an f64 is kept up to its magnitude: 1/1 is any finite
   positive value, -1/1 any finite negative value, 0/1 is zero *)

Magnitude(x) == [n |-> Sign(x.n), d |-> IF x.d = 0 THEN 0 ELSE 1]

MMul(x, y) == Magnitude(FMul(x, y))
MDiv(x, y) == Magnitude(FDiv(x, y))

\* a finite positive plus a finite negative value has any finite sign
MAdd(x, y) ==
    IF IsFinite(x) /\ IsFinite(y) /\ x.n * y.n = -1
    THEN {FromInt(-1), FromInt(0), FromInt(1)}
    ELSE {Magnitude(FAdd(x, y))}

\* f64::powf(0.5): NaN below zero, +inf at either infinity
PowHalf(x) ==
    IF IsNaN(x) THEN FNaN
    ELSE IF ~IsFinite(x) THEN F(1, 0)
    ELSE IF x.n < 0 THEN FNaN
    ELSE x

\* a term of the blend with the division guarded: 0 when the span is 0
WeightedGuarded(t, s_sq, weight, span) ==
    IF span.n = 0 /\ span.d # 0 THEN FromInt(0)
    ELSE MDiv(MMul(MMul(t, s_sq), weight), span)

\* a term of the blend: t * s_sq * weight / span
Weighted(t, s_sq, weight, span) == MDiv(MMul(MMul(t, s_sq), weight), span)

\* every value compute_vix may return for these variances, up to magnitude
Blend(t1, n_t1, s1_sq, t2, n_t2, s2_sq) ==
    LET n_30 == FromInt(30 * 24 * 60)
        n_365 == FromInt(365 * 24 * 60)
        span == FSub(n_t2, n_t1)
    IN  {MMul(PowHalf(MDiv(MMul(sum, n_365), n_30)), FromInt(100)) :
            sum \in MAdd(Weighted(t1, s1_sq, FSub(n_t2, n_30), span),
                         Weighted(t2, s2_sq, FSub(n_30, n_t1), span))}

\* every result compute_vix may return, with its operands
ComputeVix(near, next, tm) ==
    UNION {{[n_t1 |-> MinutesToExpiration(near, tm),
             n_t2 |-> MinutesToExpiration(next, tm),
             s1_sq |-> r1[4].variance, s2_sq |-> r2[4].variance,
             value |-> v] :
               v \in Blend(TimeToExpiration(near, tm), MinutesToExpiration(near, tm),
                           r1[4].variance,
                           TimeToExpiration(next, tm), MinutesToExpiration(next, tm),
                           r2[4].variance)} :
           r1 \in Variance(near, tm), r2 \in Variance(next, tm)}

----------------------------------------------------------------------------
(* Inputs *)

RECURSIVE SeqsUpTo(_, _)
SeqsUpTo(S, n) ==
    IF n = 0 THEN {<<>>}
    ELSE LET shorter == SeqsUpTo(S, n - 1)
         IN  shorter \cup {Append(q, x) : q \in {r \in shorter : Len(r) = n - 1}, x \in S}

\* the strike grid: unevenly spaced, so that (next - prev) / 2 truncates
StrikePrices == {2 ^ k : k \in 0..(MaxStrike - 1)}

\* the quotes: a bid (0: an illiquid quote) and an ask one cent above it
Quote(expires_at, strike, kind, bid) ==
    OptionContract(expires_at, strike, kind, bid, bid + 1)

Contracts(expiries, kinds, prices) ==
    {Quote(e, k, kind, b) :
        e \in expiries, k \in prices, kind \in kinds, b \in 0..MaxBid}

Group(expires_at, calls, puts) ==
    [expires_at |-> expires_at, risk_free_rate |-> F(3, 1000),
     calls |-> calls, puts |-> puts]

----------------------------------------------------------------------------
(* group_options_by_expiry *)

ExpiryKeys(seq) == [i \in 1..Len(seq) |-> seq[i].expires_at]

IsCall(o) == o.kind = Call
IsNotCall(o) == ~IsCall(o)

\* the map after the loop: HashMap::insert replaces the group an earlier run
\* of the same expires_at put there
GroupOptionsByExpiry(opts) ==
    LET groups == GroupBy(opts, ExpiryKeys(opts))
        last(e) == CHOOSE i \in 1..Len(groups) :
                       /\ groups[i].key = e
                       /\ \A j \in 1..Len(groups) : groups[j].key = e => j <= i
    IN  [e \in {groups[i].key : i \in 1..Len(groups)} |->
            Group(e, SelectSeq(groups[last(e)].items, IsCall),
                     SelectSeq(groups[last(e)].items, IsNotCall))]

----------------------------------------------------------------------------
(* Option chains read as the test does: one row per strike, each row pushing
   a Call and a Put of one expiration, then group_options_by_expiry *)

\* a row is <<call bid, put bid>>; <<>> is a strike with no row
Rows(prices) == [prices -> {<<>>} \cup ((0..MaxBid) \X (0..MaxBid))]

RowOptions(e, rows) ==
    LET ps == SortedSeq({p \in DOMAIN rows : rows[p] # <<>>})
    IN  Flatten([i \in 1..Len(ps) |->
                    <<Quote(e, ps[i], Call, rows[ps[i]][1]),
                      Quote(e, ps[i], Put, rows[ps[i]][2])>>])

Chains(e, prices) ==
    {GroupOptionsByExpiry(RowOptions(e, rows))[e] :
        rows \in {r \in Rows(prices) : \E p \in prices : r[p] # <<>>}}

SecondsPerYear == MinutesPerYear * 60

----------------------------------------------------------------------------
(* Specification of get_strikes *)

\* nothing computed yet
Idle ==
    /\ near_term = <<>>
    /\ next_term = <<>>
    /\ strikes = <<>>
    /\ fp = 0
    /\ atm = <<>>
    /\ prev = <<>>
    /\ vr = <<>>
    /\ vix = <<>>

InitStrikes ==
    /\ pc = "input"
    /\ \E c \in SeqsUpTo(Contracts({0}, {Call}, StrikePrices), MaxLen),
          p \in SeqsUpTo(Contracts({0}, {Put}, StrikePrices), MaxLen) :
            self = Group(0, c, p)
    /\ options = <<>>
    /\ options_by_expiry = <<>>
    /\ now = 0
    /\ Idle

CallGetStrikes ==
    /\ pc = "input"
    /\ strikes' \in GetStrikes(self)
    /\ pc' = "get_strikes"
    /\ UNCHANGED <<options, options_by_expiry, self, now, near_term, next_term,
                   fp, atm, prev, vr, vix>>

NextStrikes == CallGetStrikes

SpecStrikes == InitStrikes /\ [][NextStrikes]_vars

Input == self.calls \o self.puts

Quoted(kind, price) ==
    {i \in 1..Len(Input) :
        Input[i].kind = kind /\ Input[i].strike = price /\ Input[i].bid # 0}

\* C1: the prices of the list get_strikes returns are strictly increasing,
\* so no price occurs twice.
C1_StrictlyIncreasing ==
    pc = "get_strikes" =>
        \A i \in 1..(Len(strikes) - 1) : strikes[i].price < strikes[i + 1].price

\* two strikes come out of an input whose calls arrive in descending order
C1_Witness ==
    /\ pc = "get_strikes"
    /\ Len(strikes) >= 2
    /\ Len(self.calls) >= 2
    /\ self.calls[1].strike > self.calls[2].strike

\* C2: a price is emitted iff, among the contracts with a non-zero bid, there
\* is a Call and a Put with that strike; the emitted call is such a Call and
\* the emitted put is such a Put.
C2_PairingComplete ==
    pc = "get_strikes" =>
        /\ \A p \in {Input[i].strike : i \in 1..Len(Input)} \cup
                    {strikes[i].price : i \in 1..Len(strikes)} :
              (\E i \in 1..Len(strikes) : strikes[i].price = p)
                  <=> (Quoted(Call, p) # {} /\ Quoted(Put, p) # {})
        /\ \A i \in 1..Len(strikes) :
              /\ \E j \in Quoted(Call, strikes[i].price) : strikes[i].call = Input[j]
              /\ \E j \in Quoted(Put, strikes[i].price) : strikes[i].put = Input[j]

\* one price is emitted while another is dropped: it has a quoted Call and a
\* Put, but the Put's bid is 0
C2_Witness ==
    /\ pc = "get_strikes"
    /\ Len(strikes) >= 1
    /\ \E i \in 1..Len(self.calls), j \in 1..Len(self.puts) :
          /\ self.calls[i].strike = self.puts[j].strike
          /\ self.calls[i].bid # 0
          /\ self.puts[j].bid = 0
          /\ \A k \in 1..Len(strikes) : strikes[k].price # self.calls[i].strike

\* C3: an element with a predecessor and a successor has
\* delta_k = (next.price - prev.price) / 2 in integer division; the first and
\* the last element have delta_k = 0.
C3_IntervalSymmetry ==
    pc = "get_strikes" =>
        \A i \in 1..Len(strikes) :
            strikes[i].delta_k =
                IF 1 < i /\ i < Len(strikes)
                THEN TruncDiv(strikes[i + 1].price - strikes[i - 1].price, 2)
                ELSE 0

\* three strikes whose outer prices are an odd distance apart: the division
\* truncates
C3_Witness ==
    /\ pc = "get_strikes"
    /\ Len(strikes) = 3
    /\ (strikes[3].price - strikes[1].price) % 2 = 1
    /\ strikes[2].delta_k > 0

\* C10: the emitted OptionStrike pairs the first quoted Call and the first
\* quoted Put of its strike in arrival order (calls, then puts).
C10_FirstInArrivalOrder ==
    pc = "get_strikes" =>
        \A i \in 1..Len(strikes) :
            /\ strikes[i].call = Input[MinOf(Quoted(Call, strikes[i].price))]
            /\ strikes[i].put = Input[MinOf(Quoted(Put, strikes[i].price))]

----------------------------------------------------------------------------
(* Specification of group_options_by_expiry *)

InitGroup ==
    /\ pc = "input"
    /\ options \in SeqsUpTo(Contracts(1..2, OptionKind, {1}), MaxLen)
    /\ options_by_expiry = <<>>
    /\ self = <<>>
    /\ now = 0
    /\ Idle

CallGroupOptionsByExpiry ==
    /\ pc = "input"
    /\ options_by_expiry' = GroupOptionsByExpiry(options)
    /\ pc' = "group_options_by_expiry"
    /\ UNCHANGED <<options, self, now, near_term, next_term,
                   strikes, fp, atm, prev, vr, vix>>

NextGroup == CallGroupOptionsByExpiry

SpecGroup == InitGroup /\ [][NextGroup]_vars

Range(seq) == {seq[i] : i \in 1..Len(seq)}

\* C4: group_options_by_expiry partitions its input, in any order: every
\* contract is in the group of its expires_at, among the calls if it is a
\* Call and among the puts if it is a Put, and the map has one entry per
\* distinct expires_at.
C4_Partition ==
    pc = "group_options_by_expiry" =>
        /\ DOMAIN options_by_expiry = {options[i].expires_at : i \in 1..Len(options)}
        /\ \A i \in 1..Len(options) :
              LET g == options_by_expiry[options[i].expires_at]
              IN  IF options[i].kind = Call
                  THEN options[i] \in Range(g.calls)
                  ELSE options[i] \in Range(g.puts)

\* the same, for inputs whose contracts of one expires_at are contiguous
C4_PartitionWhenContiguous ==
    (pc = "group_options_by_expiry"
     /\ \A i, j, k \in 1..Len(options) :
           (i < j /\ j < k /\ options[i].expires_at = options[k].expires_at)
               => options[j].expires_at = options[i].expires_at)
        => C4_Partition

----------------------------------------------------------------------------
(* Specification of forward_price, run before and after a change of one quote *)

Expirations == {0, SecondsPerYear, 2 * SecondsPerYear}

InitForward ==
    /\ pc = "input"
    /\ \E e \in Expirations :
          self \in Chains(e, {2 ^ k : k \in 0..(MaxStrike - 2)})
    /\ now = SecondsPerYear
    /\ options = <<>>
    /\ options_by_expiry = <<>>
    /\ Idle

CallForwardPrice ==
    /\ pc \in {"input", "perturbed"}
    /\ \E st \in GetStrikes(self) :
          \E a \in AtmChoices(st) :
              /\ strikes' = st
              /\ atm' = a
              /\ fp' = ForwardPriceOf(a, Interest(self, now))
    /\ pc' = IF pc = "input" THEN "forward_price" ELSE "forward_price_again"
    /\ UNCHANGED <<options, options_by_expiry, self, now, near_term, next_term,
                   prev, vr, vix>>

\* the caller replaces the quote of one contract whose strike is not the
\* ATM strike
Perturb ==
    /\ pc = "forward_price"
    /\ atm # <<>>
    /\ \E side \in {"calls", "puts"} :
          \E i \in 1..Len(self[side]), b \in 0..MaxBid :
              LET o == self[side][i]
              IN  /\ o.strike # atm[1].price
                  /\ b # o.bid
                  /\ self' = [self EXCEPT ![side][i] =
                                  Quote(o.expires_at, o.strike, o.kind, b)]
    /\ prev' = [fp |-> fp, atm |-> atm[1]]
    /\ pc' = "perturbed"
    /\ UNCHANGED <<options, options_by_expiry, now, near_term, next_term,
                   strikes, fp, atm, vr, vix>>

NextForward == CallForwardPrice \/ Perturb

SpecForward == InitForward /\ [][NextForward]_vars

SamePair(s, t) == s.price = t.price /\ s.call = t.call /\ s.put = t.put

\* the strike forward_price used before the change is, after it, the only
\* strike of get_strikes with the least |call_put_difference|
StillUniqueAtm ==
    /\ \E i \in 1..Len(strikes) : SamePair(strikes[i], prev.atm)
    /\ \A i \in 1..Len(strikes) :
          ~SamePair(strikes[i], prev.atm)
              => Abs(CallPutDifference(strikes[i])) > Abs(CallPutDifference(prev.atm))

\* C5 as stated: a change of the bid and ask of a call or put at a strike
\* that is not the ATM strike leaves forward_price(now) unchanged.
C5_AnyPerturbation ==
    pc = "forward_price_again" => fp = prev.fp

\* C5, amended: such a change leaves forward_price(now) unchanged provided
\* the ATM strike is, after the change, still the only strike with the least
\* |call_put_difference|.
C5_ForwardPriceStable ==
    (pc = "forward_price_again" /\ StillUniqueAtm) => fp = prev.fp

\* a changed quote at another strike that get_strikes still emits, the ATM
\* strike still the only minimum, and the same forward price
C5_Witness ==
    /\ pc = "forward_price_again"
    /\ StillUniqueAtm
    /\ Len(strikes) >= 2
    /\ \E i \in 1..Len(strikes) : strikes[i].price # prev.atm.price
    /\ fp = prev.fp

MinCpd(st) == MinOf({Abs(CallPutDifference(st[i])) : i \in 1..Len(st)})

\* C6: forward_price(now) is 0 when get_strikes is empty; otherwise it is
\* atm.price + trunc(interest * atm.call_put_difference), truncated toward
\* zero, for a strike atm of get_strikes whose |call_put_difference| is the
\* least.
C6_ForwardPrice ==
    pc \in {"forward_price", "forward_price_again"} =>
        IF Len(strikes) = 0 THEN fp = 0
        ELSE \E i \in 1..Len(strikes) :
                LET d == CallPutDifference(strikes[i])
                    x == FMul(Interest(self, now), FromInt(d))
                IN  /\ Abs(d) = MinCpd(strikes)
                    /\ fp = strikes[i].price + Sign(x.n) * (Abs(x.n) \div x.d)

\* two strikes, the ATM one not the first, and an interest term that
\* truncation and rounding down treat differently
C6_Witness ==
    /\ pc = "forward_price"
    /\ Len(strikes) >= 2
    /\ atm[1].price # strikes[1].price
    /\ CallPutDifference(atm[1]) < 0
    /\ Interest(self, now) # FromInt(1)
    /\ fp # atm[1].price + CallPutDifference(atm[1])

\* no strikes: forward_price is 0
C6_WitnessEmpty ==
    pc = "forward_price" /\ Len(strikes) = 0 /\ fp = 0

----------------------------------------------------------------------------
(* Specification of variance *)

InitVariance ==
    /\ pc = "input"
    /\ \E e \in Expirations : self \in Chains(e, StrikePrices)
    /\ now = SecondsPerYear
    /\ options = <<>>
    /\ options_by_expiry = <<>>
    /\ Idle

CallVariance ==
    /\ pc = "input"
    /\ \E r \in Variance(self, now) :
          /\ strikes' = r[1]
          /\ atm' = r[2]
          /\ fp' = r[3]
          /\ vr' = r[4]
    /\ pc' = "variance"
    /\ UNCHANGED <<options, options_by_expiry, self, now, near_term, next_term,
                   prev, vix>>

NextVariance == CallVariance

SpecVariance == InitVariance /\ [][NextVariance]_vars

\* C8: when no strike lies strictly below the forward price (k_0 = 0), the
\* term a is 0 and the result is (2 * sum of contributions) / t.
C8_GuardedDivision ==
    (pc = "variance" /\ \A i \in 1..Len(strikes) : strikes[i].price >= fp) =>
        /\ vr.a = FromInt(0)
        /\ vr.variance = FDiv(FMul(FromInt(2), vr.contributions), vr.t)

\* the strikes of get_strikes strictly below the forward price
BelowFp == {i \in 1..Len(strikes) : strikes[i].price < fp}

\* K0: the one of them with the largest price
K0 == CHOOSE i \in BelowFp : \A j \in BelowFp : strikes[j].price <= strikes[i].price

ExpectedLegs ==
    {<<strikes[i].call, strikes[i].delta_k>> :
        i \in {j \in 1..Len(strikes) : strikes[j].price >= fp}}
    \cup (IF BelowFp = {} THEN {}
          ELSE {<<strikes[i].put, strikes[i].delta_k>> :
                   i \in {j \in BelowFp : strikes[j].price < strikes[K0].price}}
               \cup {<<strikes[K0].call, strikes[K0].delta_k>>,
                     <<strikes[K0].put, strikes[K0].delta_k>>})

\* C9: the selected legs are exactly the put of every strike below K0, the
\* call of every strike at or above the forward price, and the call and the
\* put of K0, each with its strike's delta_k: one leg per strike, two for K0.
C9_SelectedLegs ==
    pc = "variance" =>
        /\ Range(vr.selected_options) = ExpectedLegs
        /\ Len(vr.selected_options) =
              Len(strikes) + (IF BelowFp = {} THEN 0 ELSE 1)

\* a strike below K0, K0 itself and a strike at or above the forward price
C9_Witness ==
    /\ pc = "variance"
    /\ Len(strikes) = 3
    /\ strikes[2].price < fp
    /\ fp <= strikes[3].price
    /\ Len(vr.selected_options) = 4

----------------------------------------------------------------------------
(* Specification of compute_vix *)

\* now, a year from now, and half a minute after that; the near-term chain
\* is over the whole strike grid, the next-term chain over its lowest strike
VixExpirations == {SecondsPerYear, 2 * SecondsPerYear, 2 * SecondsPerYear + 30}

InitVix ==
    /\ pc = "input"
    /\ \E e \in VixExpirations : near_term \in Chains(e, StrikePrices)
    /\ \E e \in VixExpirations : next_term \in Chains(e, {1})
    /\ now = SecondsPerYear
    /\ options = <<>>
    /\ options_by_expiry = <<>>
    /\ self = <<>>
    /\ strikes = <<>>
    /\ fp = 0
    /\ atm = <<>>
    /\ prev = <<>>
    /\ vr = <<>>
    /\ vix = <<>>

CallComputeVix ==
    /\ pc = "input"
    /\ vix' \in ComputeVix(near_term, next_term, now)
    /\ pc' = "compute_vix"
    /\ UNCHANGED <<options, options_by_expiry, self, now, near_term, next_term,
                   strikes, fp, atm, prev, vr>>

NextVix == CallComputeVix

SpecVix == InitVix /\ [][NextVix]_vars

\* C7: when both groups have the same minutes_to_expiration(now), compute_vix
\* returns without raising and its value is not finite: infinite or NaN.
C7_DegenerateBlend ==
    (pc = "compute_vix" /\ vix.n_t1 = vix.n_t2) => ~IsFinite(vix.value)

\* two groups half a minute apart, a year away, both variances finite and
\* not zero: only the division by n_t2 - n_t1 = 0 makes the value infinite
C7_Witness ==
    /\ pc = "compute_vix"
    /\ vix.n_t1 = vix.n_t2
    /\ near_term.expires_at # next_term.expires_at
    /\ IsFinite(vix.s1_sq) /\ vix.s1_sq.n > 0
    /\ IsFinite(vix.s2_sq) /\ vix.s2_sq.n < 0
    /\ vix.value = F(1, 0)

====
